---- MODULE Spec2Model ----
(***************************************************************************)
(* GuideSight: the navigation session (src/app.py), the landmark store     *)
(* (src/database.py), the route planner (src/navigation.py) and the        *)
(* localizer (src/localization.py) as one state machine.                   *)
(*                                                                         *)
(* Conventions.  Distances and confidences are fixed-point numbers in      *)
(* tenths (0.7 m is 7, 100.0 % is 1000).  Python's None is NoneInt for an  *)
(* integer-valued field and NoneStr for a string-valued one; a planner     *)
(* result of None is the empty sequence (a found path is never empty).     *)
(* Row ids are AUTOINCREMENT keys: the id of a row is its index in the     *)
(* table's sequence.  A request handler is one atomic action; a background *)
(* loop is a thread that takes one step per access to shared state.        *)
(***************************************************************************)
EXTENDS Integers, Sequences, FiniteSets, TLC

\* ---------------------------------------------------------------- bounds

\* Threads started over one run (one per accepted start request).
MaxThreads == 2

\* Landmark frames the store may hold.
MaxFrames == 2

\* Largest path graph / path handed to the planner and instruction checks.
MaxNodes == 4

\* Landmark frames the store may hold in the runs of mapping sessions alone.
MaxMapFrames == 5

\* Stored frames of the location handed to localize.
MaxStored == 3

\* Nodes of the directed graphs handed to the search.
MaxGraphNodes == 3

\* ------------------------------------------------------ program constants

NoneInt == -1

NoneStr == "None"

\* Edge weight written by save_frame: 0.7 m, in tenths.
StepDistance == 7

\* Per-position factor of the heuristic: 0.7, in tenths.
HeuristicScale == 7

\* float('inf') of the g_score table.
Infinity == 1000000

\* Localizer.confidence_threshold.
ConfidenceThreshold == 30

\* Minimum live keypoints for localize.
MinLocalizeKeypoints == 10

\* mapping_loop persists a frame only with more keypoints than this.
MinMappingKeypoints == 50

\* Names a request may carry.
LocationNames == {"kitchen", "hall"}

\* Keypoint counts of a captured frame (0: no descriptors at all), around the
\* thresholds of localize and of mapping_loop.
KeypointCounts == {0, 9, 10, 50, 51}

\* Raw match scores of one stored frame against the live frame in a session:
\* no good match, or more good matches than 100.
MatchScores == {0, 120}

\* ---------------------------------------------------------------- state

VARIABLES
    app_state,   \* the session record of src/app.py
    navigator,   \* Navigator.current_path, Navigator.current_step
    db,          \* the four tables of the landmark store
    threads,     \* the background threads started so far, in start order
    response,    \* the HTTP response returned by the step just taken
    spoken,      \* the text the step just taken handed to voice_handler.speak
    fin,         \* input of the pure-function specifications
    fout         \* result of the pure-function specifications

vars == <<app_state, navigator, db, threads, response, spoken, fin, fout>>

sysvars == <<app_state, navigator, db, threads, response, spoken>>

Max(a, b) == IF a >= b THEN a ELSE b

Min(a, b) == IF a <= b THEN a ELSE b

Abs(a) == IF a >= 0 THEN a ELSE -a

Range(s) == {s[i] : i \in DOMAIN s}

\* f"{d:.1f}" for a non-negative value given in tenths.
FormatTenths(d) == ToString(d \div 10) \o "." \o ToString(d % 10)

\* ------------------------------------------------------- landmark store

EmptyDb ==
    [locations |-> <<>>, frames |-> <<>>, graph_nodes |-> <<>>, graph_edges |-> <<>>]

get_all_locations(d) == Range(d.locations)

\* id of the location row named name, NoneInt when there is none.
LocationId(d, name) ==
    IF name \in Range(d.locations)
    THEN CHOOSE i \in DOMAIN d.locations : d.locations[i] = name
    ELSE NoneInt

\* INSERT, or on the UNIQUE violation the id of the existing row.
save_location(d, name) ==
    IF name \in Range(d.locations)
    THEN [db |-> d, id |-> LocationId(d, name)]
    ELSE [db |-> [d EXCEPT !.locations = Append(@, name)],
          id |-> Len(d.locations) + 1]

\* Rows the SELECT of save_frame may return first: the nodes of the location
\* at the previous position (NoneInt when the SELECT is empty or not run).
PrevNodes(d, location_id, sequence_number) ==
    LET found == {n \in DOMAIN d.graph_nodes :
                    /\ d.graph_nodes[n].location_id = location_id
                    /\ d.graph_nodes[n].position_index = sequence_number - 1}
    IN  IF sequence_number > 0 /\ found # {} THEN found ELSE {NoneInt}

\* A faulty save_frame that inserts the edge from the previous node only and
\* not the edge back.
save_frame_one_way(d, location_id, sequence_number, prev_node) ==
    LET frame_id == Len(d.frames) + 1
        node_id  == Len(d.graph_nodes) + 1
        withRows == [d EXCEPT
            !.frames = Append(@, [location_id |-> location_id,
                                  sequence_number |-> sequence_number]),
            !.graph_nodes = Append(@, [location_id |-> location_id,
                                       frame_id |-> frame_id,
                                       position_index |-> sequence_number])]
    IN  IF prev_node # NoneInt
        THEN [withRows EXCEPT !.graph_edges =
                Append(@, <<prev_node, node_id, StepDistance>>)]
        ELSE withRows

\* One frame row, its graph node, and the edge pair to prev_node.
save_frame(d, location_id, sequence_number, prev_node) ==
    LET frame_id == Len(d.frames) + 1
        node_id  == Len(d.graph_nodes) + 1
        withRows == [d EXCEPT
            !.frames = Append(@, [location_id |-> location_id,
                                  sequence_number |-> sequence_number]),
            !.graph_nodes = Append(@, [location_id |-> location_id,
                                       frame_id |-> frame_id,
                                       position_index |-> sequence_number])]
    IN  IF prev_node # NoneInt
        THEN [withRows EXCEPT !.graph_edges =
                @ \o << <<prev_node, node_id, StepDistance>>,
                        <<node_id, prev_node, StepDistance>> >>]
        ELSE withRows

\* The ids in ascending order of key[id] (ties in id order, the table's row order).
RECURSIVE SortBy(_, _)
SortBy(ids, key) ==
    IF ids = {} THEN <<>>
    ELSE LET m == CHOOSE a \in ids :
                    \A b \in ids : key[a] < key[b] \/ (key[a] = key[b] /\ a <= b)
         IN  <<m>> \o SortBy(ids \ {m}, key)

\* Frame ids of a location, ORDER BY sequence_number.
get_location_frames(d, location_name) ==
    LET loc == LocationId(d, location_name)
        ids == {f \in DOMAIN d.frames : d.frames[f].location_id = loc}
    IN  SortBy(ids, [f \in ids |-> d.frames[f].sequence_number])

\* nodes: node id -> position and frame id; edges: the rows whose from_node
\* belongs to the location.
get_navigation_graph(d, location_name) ==
    LET loc == LocationId(d, location_name)
        ids == {n \in DOMAIN d.graph_nodes : d.graph_nodes[n].location_id = loc}
    IN  [nodes |-> [n \in ids |-> [position |-> d.graph_nodes[n].position_index,
                                   frame_id |-> d.graph_nodes[n].frame_id]],
         edges |-> SelectSeq(d.graph_edges, LAMBDA e : e[1] \in ids)]

\* The store left by one earlier, uninterrupted mapping session of n frames.
RECURSIVE MappedStore(_, _)
MappedStore(name, n) ==
    IF n = 0 THEN save_location(EmptyDb, name).db
    ELSE LET d == MappedStore(name, n - 1)
         IN  save_frame(d, 1, n - 1, IF n = 1 THEN NoneInt ELSE n - 1)

\* The store after a second session on the same location added m frames to
\* the n of the first: the sequence numbers start again at 0 (the edges go to
\* one of the nodes at the previous position).
RECURSIVE RemappedStore(_, _, _)
RemappedStore(name, n, m) ==
    IF m = 0 THEN MappedStore(name, n)
    ELSE LET d == RemappedStore(name, n, m - 1)
         IN  save_frame(d, 1, m - 1, CHOOSE p \in PrevNodes(d, 1, m - 1) : TRUE)

\* ------------------------------------------------------------- navigator

_heuristic(nodes, node1, node2) ==
    Abs(nodes[node2].position - nodes[node1].position) * HeuristicScale

Reverse(s) == [i \in 1..Len(s) |-> s[Len(s) + 1 - i]]

\* while current in came_from: current = came_from[current]; path.append(current)
RECURSIVE WalkBack(_, _, _)
WalkBack(came_from, current, path) ==
    IF current \in DOMAIN came_from
    THEN WalkBack(came_from, came_from[current], Append(path, came_from[current]))
    ELSE path

\* A faulty _reconstruct_path that omits path.reverse(): the walk from the
\* goal back to the start as it was appended.
_reconstruct_path_unreversed(came_from, current) ==
    WalkBack(came_from, current, <<current>>)

\* Predecessor walk from the goal back to the start, reversed.
_reconstruct_path(came_from, current) ==
    Reverse(WalkBack(came_from, current, <<current>>))

\* heappop: the least (f, node) pair of the open set.
HeapMin(open_set) ==
    CHOOSE a \in open_set :
        \A b \in open_set : a[1] < b[1] \/ (a[1] = b[1] /\ a[2] <= b[2])

\* The for loop over graph[current], from neighbour i on.
RECURSIVE Relax(_, _, _, _, _, _)
Relax(nbrs, i, current, st, nodes, goal) ==
    IF i > Len(nbrs) THEN st
    ELSE LET neighbor    == nbrs[i][1]
             tentative_g == st.g_score[current] + nbrs[i][2]
         IN  IF tentative_g < st.g_score[neighbor]
             THEN LET f == tentative_g + _heuristic(nodes, neighbor, goal)
                      queued == \E e \in st.open_set : e[2] = neighbor
                  IN  Relax(nbrs, i + 1, current,
                            [open_set  |-> IF queued THEN st.open_set
                                           ELSE st.open_set \cup {<<f, neighbor>>},
                             came_from |-> [n \in DOMAIN st.came_from \cup {neighbor} |->
                                              IF n = neighbor THEN current
                                              ELSE st.came_from[n]],
                             g_score   |-> [st.g_score EXCEPT ![neighbor] = tentative_g]],
                            nodes, goal)
             ELSE Relax(nbrs, i + 1, current, st, nodes, goal)

\* The while loop of _astar.
RECURSIVE AstarLoop(_, _, _, _)
AstarLoop(graph, nodes, goal, st) ==
    IF st.open_set = {} THEN <<>>
    ELSE LET top     == HeapMin(st.open_set)
             current == top[2]
             popped  == [st EXCEPT !.open_set = @ \ {top}]
         IN  IF current = goal
             THEN _reconstruct_path(st.came_from, current)
             ELSE AstarLoop(graph, nodes, goal,
                            Relax(graph[current], 1, current, popped, nodes, goal))

\* A faulty _astar whose g_score starts at 0 for every node instead of
\* float('inf').
_astar_zero_scores(graph, nodes, start, goal) ==
    AstarLoop(graph, nodes, goal,
              [open_set  |-> {<<0, start>>},
               came_from |-> [n \in {} |-> NoneInt],
               g_score   |-> [n \in DOMAIN graph |-> 0]])

_astar(graph, nodes, start, goal) ==
    AstarLoop(graph, nodes, goal,
              [open_set  |-> {<<0, start>>},
               came_from |-> [n \in {} |-> NoneInt],
               g_score   |-> [n \in DOMAIN graph |-> IF n = start THEN 0 ELSE Infinity]])

\* graph[from_node].append((to_node, distance)) over the edge rows.
RECURSIVE Adjacency(_, _, _)
Adjacency(ids, edges, i) ==
    IF i = 0 THEN [n \in ids |-> <<>>]
    ELSE LET g == Adjacency(ids, edges, i - 1)
             e == edges[i]
         IN  [g EXCEPT ![e[1]] = Append(@, <<e[2], e[3]>>)]

\* Candidates of max(nodes.keys(), key=position): the nodes at the highest
\* position (the first of them in the query's row order is taken).
TerminalNodes(nodes) ==
    {n \in DOMAIN nodes : \A m \in DOMAIN nodes : nodes[m].position <= nodes[n].position}

\* plan_route with the goal resolved to destination_node_id.
plan_route(nav, d, location_name, current_node_id, destination_node_id) ==
    LET g     == get_navigation_graph(d, location_name)
        graph == Adjacency(DOMAIN g.nodes, g.edges, Len(g.edges))
        path  == _astar(graph, g.nodes, current_node_id, destination_node_id)
    IN  IF DOMAIN g.nodes = {} THEN nav
        ELSE IF path # <<>>
             THEN [current_path |-> path, current_step |-> 0]
             ELSE nav

\* A faulty get_next_instruction whose arrival test compares the step with
\* len(current_path) in place of len(current_path) - 1.
get_next_instruction_late(nav) ==
    IF nav.current_path = <<>> \/ nav.current_step >= Len(nav.current_path)
    THEN "Destination reached"
    ELSE "Continue forward " \o FormatTenths(StepDistance) \o " meters"

ReachedText == "Destination reached"

get_next_instruction(nav) ==
    IF nav.current_path = <<>> \/ nav.current_step >= Len(nav.current_path)
    THEN ReachedText
    ELSE IF nav.current_step = Len(nav.current_path) - 1
         THEN ReachedText
         ELSE "Continue forward " \o FormatTenths(StepDistance) \o " meters"

advance_step(nav) ==
    IF nav.current_step < Len(nav.current_path) - 1
    THEN [nav EXCEPT !.current_step = @ + 1]
    ELSE nav

\* ------------------------------------------------------------- localizer

\* A faulty loop over saved_frames that compares each frame's count with the
\* confidence threshold and not with the best count so far.
RECURSIVE BestMatch_above_threshold(_, _, _, _, _)
BestMatch_above_threshold(d, saved_frames, scores, i, best) ==
    IF i > Len(saved_frames) THEN best
    ELSE LET f == saved_frames[i]
         IN  IF scores[f] >= ConfidenceThreshold
             THEN BestMatch_above_threshold(d, saved_frames, scores, i + 1,
                            [best_match       |-> f,
                             best_match_count |-> scores[f],
                             best_sequence    |-> d.frames[f].sequence_number])
             ELSE BestMatch_above_threshold(d, saved_frames, scores, i + 1, best)

\* A faulty loop in which a frame replaces the best also with an equal count.
RECURSIVE BestMatch_last_wins(_, _, _, _, _)
BestMatch_last_wins(d, saved_frames, scores, i, best) ==
    IF i > Len(saved_frames) THEN best
    ELSE LET f == saved_frames[i]
         IN  IF scores[f] >= best.best_match_count
             THEN BestMatch_last_wins(d, saved_frames, scores, i + 1,
                            [best_match       |-> f,
                             best_match_count |-> scores[f],
                             best_sequence    |-> d.frames[f].sequence_number])
             ELSE BestMatch_last_wins(d, saved_frames, scores, i + 1, best)

\* The for loop over saved_frames from frame i on; a frame replaces the best
\* only with a strictly higher count of good matches.
RECURSIVE BestMatch(_, _, _, _, _)
BestMatch(d, saved_frames, scores, i, best) ==
    IF i > Len(saved_frames) THEN best
    ELSE LET f == saved_frames[i]
         IN  IF scores[f] > best.best_match_count
             THEN BestMatch(d, saved_frames, scores, i + 1,
                            [best_match       |-> f,
                             best_match_count |-> scores[f],
                             best_sequence    |-> d.frames[f].sequence_number])
             ELSE BestMatch(d, saved_frames, scores, i + 1, best)

NoMatch == [frame_id |-> NoneInt, confidence |-> 0, sequence |-> NoneInt]

\* A faulty localize that tests only for absent descriptors and not for the
\* number of keypoints.
localize_any_count(d, keypoints, scores, location_name) ==
    LET saved_frames == get_location_frames(d, location_name)
        best == BestMatch(d, saved_frames, scores, 1,
                          [best_match |-> NoneInt, best_match_count |-> 0,
                           best_sequence |-> 0])
    IN  IF keypoints = 0 THEN NoMatch
        ELSE IF saved_frames = <<>> THEN NoMatch
        ELSE IF best.best_match_count >= ConfidenceThreshold
             THEN [frame_id   |-> best.best_match,
                   confidence |-> best.best_match_count,
                   sequence   |-> best.best_sequence]
             ELSE [frame_id |-> NoneInt, confidence |-> best.best_match_count,
                   sequence |-> NoneInt]

\* A faulty localize that reports confidence 0 whenever it returns no frame.
localize_zero_on_miss(d, keypoints, scores, location_name) ==
    LET saved_frames == get_location_frames(d, location_name)
        best == BestMatch(d, saved_frames, scores, 1,
                          [best_match |-> NoneInt, best_match_count |-> 0,
                           best_sequence |-> 0])
    IN  IF keypoints = 0 \/ keypoints < MinLocalizeKeypoints THEN NoMatch
        ELSE IF saved_frames = <<>> THEN NoMatch
        ELSE IF best.best_match_count >= ConfidenceThreshold
             THEN [frame_id   |-> best.best_match,
                   confidence |-> best.best_match_count,
                   sequence   |-> best.best_sequence]
             ELSE NoMatch

\* keypoints: the live frame's keypoint count (no descriptors when 0);
\* scores[f]: the good matches of the live frame against stored frame f.
localize(d, keypoints, scores, location_name) ==
    LET saved_frames == get_location_frames(d, location_name)
        best == BestMatch(d, saved_frames, scores, 1,
                          [best_match |-> NoneInt, best_match_count |-> 0,
                           best_sequence |-> 0])
    IN  IF keypoints = 0 \/ keypoints < MinLocalizeKeypoints THEN NoMatch
        ELSE IF saved_frames = <<>> THEN NoMatch
        ELSE IF best.best_match_count >= ConfidenceThreshold
             THEN [frame_id   |-> best.best_match,
                   confidence |-> best.best_match_count,
                   sequence   |-> best.best_sequence]
             ELSE [frame_id |-> NoneInt, confidence |-> best.best_match_count,
                   sequence |-> NoneInt]

\* A faulty _cap_confidence that scales every value up to 100.
_cap_confidence_rescaled(v) ==
    LET scaled == IF 0 <= v /\ v <= 1000 THEN v * 100 ELSE v
    IN  Max(0, Min(scaled, 1000))

\* v in tenths: a value in [0, 1] is scaled by 100, then capped to [0, 100].
_cap_confidence(v) ==
    LET scaled == IF 0 <= v /\ v <= 10 THEN v * 100 ELSE v
    IN  Max(0, Min(scaled, 1000))

\* --------------------------------------------------------------- strings

LowerChar(c) ==
    CASE c = "A" -> "a" [] c = "B" -> "b" [] c = "C" -> "c" [] c = "D" -> "d"
      [] c = "E" -> "e" [] c = "F" -> "f" [] c = "G" -> "g" [] c = "H" -> "h"
      [] c = "I" -> "i" [] c = "J" -> "j" [] c = "K" -> "k" [] c = "L" -> "l"
      [] c = "M" -> "m" [] c = "N" -> "n" [] c = "O" -> "o" [] c = "P" -> "p"
      [] c = "Q" -> "q" [] c = "R" -> "r" [] c = "S" -> "s" [] c = "T" -> "t"
      [] c = "U" -> "u" [] c = "V" -> "v" [] c = "W" -> "w" [] c = "X" -> "x"
      [] c = "Y" -> "y" [] c = "Z" -> "z" [] OTHER -> c

RECURSIVE Lower(_)
Lower(s) ==
    IF Len(s) = 0 THEN ""
    ELSE LowerChar(SubSeq(s, 1, 1)) \o Lower(SubSeq(s, 2, Len(s)))

\* sub in s
Contains(s, sub) ==
    \E i \in 1..(Len(s) - Len(sub) + 1) : SubSeq(s, i, i + Len(sub) - 1) = sub

\* "reached" in instruction.lower()
IsReached(instruction) == Contains(Lower(instruction), "reached")

\* ----------------------------------------------------- obstacle detector

\* obstacle_priority.get(class_name, 1)
Priority(class) ==
    CASE class = "person" -> 3
      [] class \in {"chair", "sofa", "diningtable", "bed"} -> 2
      [] OTHER -> 1

\* Detections above the score threshold, in the model's output order.
RawDetections ==
    { <<>>,
      << [class |-> "chair", distance |-> 15] >>,
      << [class |-> "bottle", distance |-> 25], [class |-> "person", distance |-> 10] >> }

\* a sorts before b under key (-priority, distance).
Before(a, b) ==
    \/ Priority(a.class) > Priority(b.class)
    \/ Priority(a.class) = Priority(b.class) /\ a.distance < b.distance

\* obstacles.sort(key=...): a stable insertion of each detection in turn.
RECURSIVE SortDetections(_, _)
SortDetections(raw, i) ==
    IF i = 0 THEN <<>>
    ELSE LET done == SortDetections(raw, i - 1)
             x    == raw[i]
             k    == Cardinality({j \in DOMAIN done : ~Before(x, done[j])})
         IN  SubSeq(done, 1, k) \o <<x>> \o SubSeq(done, k + 1, Len(done))

detect_obstacles(raw) == SortDetections(raw, Len(raw))

\* A faulty test that also warns of an obstacle at exactly 1.5.
TooClose_inclusive(obstacles) == obstacles # <<>> /\ obstacles[1].distance <= 15

\* obstacles and obstacles[0]['distance'] < 1.5
TooClose(obstacles) == obstacles # <<>> /\ obstacles[1].distance < 15

WarningText(obs) ==
    "Warning! " \o obs.class \o " ahead at " \o FormatTenths(obs.distance) \o " meters"

\* ------------------------------------------------------------ the session

InitialAppState ==
    [mode |-> "idle", current_location |-> NoneStr, mapping_frames |-> 0,
     current_position |-> NoneInt, localization_confidence |-> 0,
     obstacles |-> <<>>, navigation_instruction |-> "", destination |-> NoneStr]

\* The store file outlives the process: empty on the first run, or what an
\* earlier run's mapping session of "kitchen" left in it.
InitialStores == {EmptyDb} \cup {MappedStore("kitchen", n) : n \in 1..MaxFrames}

\* A step that returns no response, and one that speaks nothing.
NoResponse == [status |-> NoneStr, message |-> NoneStr]

Silent == spoken' = NoneStr

Quiet == response' = NoResponse /\ spoken' = NoneStr

Init ==
    /\ app_state = InitialAppState
    /\ navigator = [current_path |-> <<>>, current_step |-> 0]
    /\ db \in InitialStores
    /\ threads = <<>>
    /\ response = NoResponse
    /\ spoken = NoneStr
    /\ fin = [fn |-> "none"]
    /\ fout = [done |-> FALSE]

\* A started thread: its target and arguments, its next statement and its
\* locals.  stopped observes the run and is read by no step: a stop request
\* has set the mode to idle while the loop was live.
NewThread(target, location_id, destination) ==
    [target |-> target, location_id |-> location_id, destination |-> destination,
     pc |-> IF target = "mapping_loop" THEN "map_while" ELSE "nav_init",
     loop |-> 1, kp |-> NoneInt, current_node |-> NoneInt, instruction |-> NoneStr,
     stopped |-> FALSE]

Live(t) == threads[t].pc # "done"

\* The threads of one target that a stop request interrupts.
MarkStopped(target) ==
    [t \in DOMAIN threads |->
        IF threads[t].target = target /\ Live(t)
        THEN [threads[t] EXCEPT !.stopped = TRUE]
        ELSE threads[t]]

start_mapping(location_name) ==
    LET saved == save_location(db, location_name)
    IN  /\ Len(threads) < MaxThreads
        /\ app_state' = [app_state EXCEPT !.mode = "mapping",
                                          !.current_location = location_name,
                                          !.mapping_frames = 0]
        /\ db' = saved.db
        /\ threads' = Append(threads, NewThread("mapping_loop", saved.id, NoneStr))
        /\ spoken' = "Starting to map " \o location_name
        /\ response' = [status |-> "success", message |-> "Mapping " \o location_name]
        /\ UNCHANGED <<navigator, fin, fout>>

stop_mapping ==
    IF app_state.mode = "mapping"
    THEN /\ app_state' = [app_state EXCEPT !.mode = "idle",
                                           !.current_location = NoneStr]
         /\ threads' = MarkStopped("mapping_loop")
         /\ spoken' = "Mapping complete. Saved " \o ToString(app_state.mapping_frames)
                        \o " landmarks for " \o app_state.current_location
         /\ response' = [status |-> "success",
                         message |-> "Mapping complete: "
                                       \o ToString(app_state.mapping_frames) \o " frames"]
         /\ UNCHANGED <<navigator, db, fin, fout>>
    ELSE /\ response' = [status |-> "error", message |-> "Not in mapping mode"]
         /\ Silent
         /\ UNCHANGED <<app_state, navigator, db, threads, fin, fout>>

\* A faulty start_navigation that records the destination before it looks
\* the name up.
start_navigation_early(destination) ==
    IF destination \notin get_all_locations(db)
    THEN /\ app_state' = [app_state EXCEPT !.destination = destination]
         /\ spoken' = "Location " \o destination \o " not found"
         /\ response' = [status |-> "error", message |-> "Location not found"]
         /\ UNCHANGED <<navigator, db, threads, fin, fout>>
    ELSE /\ Len(threads) < MaxThreads
         /\ app_state' = [app_state EXCEPT !.mode = "navigating",
                                           !.destination = destination]
         /\ threads' = Append(threads, NewThread("navigation_loop", NoneInt, destination))
         /\ spoken' = "Navigating to " \o destination
         /\ response' = [status |-> "success",
                         message |-> "Navigating to " \o destination]
         /\ UNCHANGED <<navigator, db, fin, fout>>

start_navigation(destination) ==
    IF destination \notin get_all_locations(db)
    THEN /\ spoken' = "Location " \o destination \o " not found"
         /\ response' = [status |-> "error", message |-> "Location not found"]
         /\ UNCHANGED <<app_state, navigator, db, threads, fin, fout>>
    ELSE /\ Len(threads) < MaxThreads
         /\ app_state' = [app_state EXCEPT !.mode = "navigating",
                                           !.destination = destination]
         /\ threads' = Append(threads, NewThread("navigation_loop", NoneInt, destination))
         /\ spoken' = "Navigating to " \o destination
         /\ response' = [status |-> "success",
                         message |-> "Navigating to " \o destination]
         /\ UNCHANGED <<navigator, db, fin, fout>>

\* A faulty stop_navigation that clears the planned path before it tests the
\* mode.
stop_navigation_clears_first ==
    IF app_state.mode = "navigating"
    THEN /\ app_state' = [app_state EXCEPT !.mode = "idle", !.destination = NoneStr]
         /\ navigator' = [navigator EXCEPT !.current_path = <<>>]
         /\ threads' = MarkStopped("navigation_loop")
         /\ spoken' = "Navigation stopped"
         /\ response' = [status |-> "success", message |-> "Navigation stopped"]
         /\ UNCHANGED <<db, fin, fout>>
    ELSE /\ navigator' = [navigator EXCEPT !.current_path = <<>>]
         /\ response' = [status |-> "error", message |-> "Not in navigation mode"]
         /\ Silent
         /\ UNCHANGED <<app_state, db, threads, fin, fout>>

stop_navigation ==
    IF app_state.mode = "navigating"
    THEN /\ app_state' = [app_state EXCEPT !.mode = "idle", !.destination = NoneStr]
         /\ navigator' = [navigator EXCEPT !.current_path = <<>>]
         /\ threads' = MarkStopped("navigation_loop")
         /\ spoken' = "Navigation stopped"
         /\ response' = [status |-> "success", message |-> "Navigation stopped"]
         /\ UNCHANGED <<db, fin, fout>>
    ELSE /\ response' = [status |-> "error", message |-> "Not in navigation mode"]
         /\ Silent
         /\ UNCHANGED <<app_state, navigator, db, threads, fin, fout>>

\* One pass of generate_frames for a connected viewer (a failed read ends it).
generate_frames ==
    /\ \/ UNCHANGED app_state
       \/ /\ app_state.mode = "navigating"
          /\ \E raw \in RawDetections :
                app_state' = [app_state EXCEPT !.obstacles = detect_obstacles(raw)]
    /\ Quiet
    /\ UNCHANGED <<navigator, db, threads, fin, fout>>

\* ----------------------------------------------------------- mapping_loop

\* The thread at its next statement; a thread that has returned keeps no locals.
SetPc(t, pc) ==
    IF pc = "done"
    THEN [threads EXCEPT ![t] = [NewThread(threads[t].target, NoneInt, NoneStr)
                                    EXCEPT !.pc = "done"]]
    ELSE [threads EXCEPT ![t].pc = pc]

\* Frames the store may hold in this run.
FrameBound == IF fin.fn = "mapping" THEN MaxMapFrames ELSE MaxFrames

\* Frames that accepted captures are about to write.
PendingSaves == Cardinality({t \in DOMAIN threads : threads[t].pc = "map_save"})

\* while app_state['mode'] == 'mapping'
map_while(t) ==
    /\ threads[t].pc = "map_while"
    /\ threads' = SetPc(t, IF app_state.mode = "mapping" THEN "map_capture" ELSE "done")
    /\ Quiet
    /\ UNCHANGED <<app_state, navigator, db, fin, fout>>

\* A faulty test that accepts a frame of exactly 50 keypoints.
Accepted_at_least(kp) == kp # 0 /\ kp >= MinMappingKeypoints

\* if desc is not None and len(kp) > 50
Accepted(kp) == kp # 0 /\ kp > MinMappingKeypoints

\* The capture of one poll: the interval has not passed or camera.read fails,
\* or a frame with kp keypoints is read.
map_capture(t) ==
    /\ threads[t].pc = "map_capture"
    /\ \/ threads' = SetPc(t, "map_while")
       \/ \E kp \in KeypointCounts :
             IF Accepted(kp)
             THEN /\ Len(db.frames) + PendingSaves < FrameBound
                  /\ threads' = [threads EXCEPT ![t].pc = "map_save", ![t].kp = kp]
             ELSE threads' = SetPc(t, "map_while")
    /\ Quiet
    /\ UNCHANGED <<app_state, navigator, db, fin, fout>>

\* db.save_frame(location_id, app_state['mapping_frames'], ...)
map_save(t) ==
    /\ threads[t].pc = "map_save"
    /\ \E prev_node \in PrevNodes(db, threads[t].location_id, app_state.mapping_frames) :
          db' = save_frame(db, threads[t].location_id, app_state.mapping_frames, prev_node)
    /\ threads' = SetPc(t, "map_incr")
    /\ Quiet
    /\ UNCHANGED <<app_state, navigator, fin, fout>>

\* app_state['mapping_frames'] += 1, then the sleep of the poll.
map_incr(t) ==
    /\ threads[t].pc = "map_incr"
    /\ app_state' = [app_state EXCEPT !.mapping_frames = @ + 1]
    /\ threads' = [threads EXCEPT ![t].pc = "map_while", ![t].kp = NoneInt]
    /\ Quiet
    /\ UNCHANGED <<navigator, db, fin, fout>>

mapping_loop(t) == map_while(t) \/ map_capture(t) \/ map_save(t) \/ map_incr(t)

\* -------------------------------------------------------- navigation_loop

\* The statements before the first while loop.
nav_init(t) ==
    /\ threads[t].pc = "nav_init"
    /\ navigator' = [navigator EXCEPT !.current_path = navigator.current_path]
    /\ app_state' = [app_state EXCEPT !.localization_confidence = 0]
    /\ threads' = SetPc(t, "nav_while")
    /\ Quiet
    /\ UNCHANGED <<db, fin, fout>>

\* while app_state['mode'] == 'navigating', of the first loop and of the
\* second loop that follows it.
nav_while(t) ==
    /\ threads[t].pc = "nav_while"
    /\ threads' =
         IF app_state.mode = "navigating" THEN SetPc(t, "nav_read")
         ELSE IF threads[t].loop = 1 THEN [threads EXCEPT ![t].loop = 2]
         ELSE SetPc(t, "done")
    /\ Quiet
    /\ UNCHANGED <<app_state, navigator, db, fin, fout>>

\* The node whose frame is frame_id, or the node held so far.
ResolveNode(nodes, frame_id, current_node) ==
    IF \E n \in DOMAIN nodes : nodes[n].frame_id = frame_id
    THEN CHOOSE n \in DOMAIN nodes : nodes[n].frame_id = frame_id
    ELSE current_node

\* What the loop stores as the confidence: normalized by the first loop, as
\* returned by the second.
StoredConfidence(loop, confidence) ==
    IF loop = 1 THEN _cap_confidence(confidence * 10) ELSE confidence * 10

\* A faulty localization tick that ends the session when plan_route leaves
\* the path empty.
LocalizationTick_giveup(t, keypoints, scores) ==
    LET found == localize(db, keypoints, scores, threads[t].destination)
        nodes == get_navigation_graph(db, threads[t].destination).nodes
        node  == ResolveNode(nodes, found.frame_id, threads[t].current_node)
        conf  == StoredConfidence(threads[t].loop, found.confidence)
    IN  IF found.frame_id # NoneInt
        THEN /\ IF node # NoneInt /\ navigator.current_path = <<>>
                THEN \E goal \in TerminalNodes(nodes) :
                        navigator' = plan_route(navigator, db, threads[t].destination,
                                                node, goal)
                ELSE UNCHANGED navigator
             /\ app_state' =
                  [app_state EXCEPT
                     !.localization_confidence = conf,
                     !.current_position = found.sequence,
                     !.mode = IF node # NoneInt /\ navigator'.current_path = <<>>
                              THEN "idle" ELSE @]
             /\ threads' = [threads EXCEPT
                              ![t].pc = IF node # NoneInt /\ navigator'.current_path # <<>>
                                        THEN "nav_instr" ELSE "nav_obstacle",
                              ![t].current_node = node]
             /\ Silent
        ELSE /\ app_state' = [app_state EXCEPT !.localization_confidence = conf]
             /\ spoken' = "Unable to determine location. Please look around"
             /\ threads' = SetPc(t, "nav_obstacle")
             /\ UNCHANGED navigator

\* A faulty localization tick that ends the session when the frame is not
\* matched.
LocalizationTick_abort(t, keypoints, scores) ==
    LET found == localize(db, keypoints, scores, threads[t].destination)
        nodes == get_navigation_graph(db, threads[t].destination).nodes
        node  == ResolveNode(nodes, found.frame_id, threads[t].current_node)
        conf  == StoredConfidence(threads[t].loop, found.confidence)
    IN  IF found.frame_id # NoneInt
        THEN /\ app_state' = [app_state EXCEPT !.localization_confidence = conf,
                                               !.current_position = found.sequence]
             /\ IF node # NoneInt /\ navigator.current_path = <<>>
                THEN \E goal \in TerminalNodes(nodes) :
                        navigator' = plan_route(navigator, db, threads[t].destination,
                                                node, goal)
                ELSE UNCHANGED navigator
             /\ threads' = [threads EXCEPT
                              ![t].pc = IF node # NoneInt /\ navigator'.current_path # <<>>
                                        THEN "nav_instr" ELSE "nav_obstacle",
                              ![t].current_node = node]
             /\ Silent
        ELSE /\ app_state' = [app_state EXCEPT !.localization_confidence = conf,
                                               !.mode = "idle"]
             /\ spoken' = "Unable to determine location. Please look around"
             /\ threads' = SetPc(t, "nav_obstacle")
             /\ UNCHANGED navigator

\* A faulty localization tick that plans a route at every tick that resolves
\* a node, whether or not a path is held.
LocalizationTick_replan(t, keypoints, scores) ==
    LET found == localize(db, keypoints, scores, threads[t].destination)
        nodes == get_navigation_graph(db, threads[t].destination).nodes
        node  == ResolveNode(nodes, found.frame_id, threads[t].current_node)
        conf  == StoredConfidence(threads[t].loop, found.confidence)
    IN  IF found.frame_id # NoneInt
        THEN /\ app_state' = [app_state EXCEPT !.localization_confidence = conf,
                                               !.current_position = found.sequence]
             /\ IF node # NoneInt
                THEN \E goal \in TerminalNodes(nodes) :
                        navigator' = plan_route(navigator, db, threads[t].destination,
                                                node, goal)
                ELSE UNCHANGED navigator
             /\ threads' = [threads EXCEPT
                              ![t].pc = IF node # NoneInt /\ navigator'.current_path # <<>>
                                        THEN "nav_instr" ELSE "nav_obstacle",
                              ![t].current_node = node]
             /\ Silent
        ELSE /\ app_state' = [app_state EXCEPT !.localization_confidence = conf]
             /\ spoken' = "Unable to determine location. Please look around"
             /\ threads' = SetPc(t, "nav_obstacle")
             /\ UNCHANGED navigator

\* The localization tick up to the test of the path: localize, the node
\* lookup, plan_route when there is a node and no path (its goal one of the
\* terminal nodes), and "if current_node and navigator.current_path".
LocalizationTick(t, keypoints, scores) ==
    LET found == localize(db, keypoints, scores, threads[t].destination)
        nodes == get_navigation_graph(db, threads[t].destination).nodes
        node  == ResolveNode(nodes, found.frame_id, threads[t].current_node)
        conf  == StoredConfidence(threads[t].loop, found.confidence)
    IN  IF found.frame_id # NoneInt
        THEN /\ app_state' = [app_state EXCEPT !.localization_confidence = conf,
                                               !.current_position = found.sequence]
             /\ IF node # NoneInt /\ navigator.current_path = <<>>
                THEN \E goal \in TerminalNodes(nodes) :
                        navigator' = plan_route(navigator, db, threads[t].destination,
                                                node, goal)
                ELSE UNCHANGED navigator
             /\ threads' = [threads EXCEPT
                              ![t].pc = IF node # NoneInt /\ navigator'.current_path # <<>>
                                        THEN "nav_instr" ELSE "nav_obstacle",
                              ![t].current_node = node]
             /\ Silent
        ELSE /\ app_state' = [app_state EXCEPT !.localization_confidence = conf]
             /\ spoken' = "Unable to determine location. Please look around"
             /\ threads' = SetPc(t, "nav_obstacle")
             /\ UNCHANGED navigator

\* camera.read fails; or the second has not passed; or the localization tick.
nav_read(t) ==
    /\ threads[t].pc = "nav_read"
    /\ \/ /\ threads' = SetPc(t, "nav_while")
          /\ UNCHANGED <<app_state, navigator>> /\ Silent
       \/ /\ threads' = SetPc(t, "nav_obstacle")
          /\ UNCHANGED <<app_state, navigator>> /\ Silent
       \/ \E keypoints \in KeypointCounts,
             scores \in [Range(get_location_frames(db, threads[t].destination))
                            -> MatchScores] :
             LocalizationTick(t, keypoints, scores)
    /\ response' = NoResponse
    /\ UNCHANGED <<db, fin, fout>>

\* instruction = navigator.get_next_instruction(nodes)
nav_instr(t) ==
    /\ threads[t].pc = "nav_instr"
    /\ LET instruction == get_next_instruction(navigator)
       IN  /\ app_state' = [app_state EXCEPT !.navigation_instruction = instruction]
           /\ threads' = [threads EXCEPT ![t].pc = "nav_tick",
                                         ![t].instruction = instruction]
    /\ Quiet
    /\ UNCHANGED <<navigator, db, fin, fout>>

\* The thread after "if 'reached' in instruction.lower()": the break of the
\* first loop falls into the second loop's while.
AfterInstruction(t) ==
    IF IsReached(threads[t].instruction)
    THEN IF threads[t].loop = 1
         THEN [threads EXCEPT ![t].pc = "nav_while", ![t].loop = 2,
                              ![t].instruction = NoneStr]
         ELSE SetPc(t, "done")
    ELSE [threads EXCEPT ![t].pc = "nav_obstacle", ![t].instruction = NoneStr]

\* The instruction tick when five seconds have passed (speak, advance_step),
\* then the arrival test: mode idle, the announcement and break.
nav_tick(t) ==
    /\ threads[t].pc = "nav_tick"
    /\ \/ /\ navigator' = advance_step(navigator)
          /\ spoken' = IF IsReached(threads[t].instruction)
                       THEN "You have arrived at your destination"
                       ELSE threads[t].instruction
       \/ /\ UNCHANGED navigator
          /\ spoken' = IF IsReached(threads[t].instruction)
                       THEN "You have arrived at your destination"
                       ELSE NoneStr
    /\ app_state' = IF IsReached(threads[t].instruction)
                    THEN [app_state EXCEPT !.mode = "idle"]
                    ELSE app_state
    /\ threads' = AfterInstruction(t)
    /\ response' = NoResponse
    /\ UNCHANGED <<db, fin, fout>>

\* The obstacle tick, when half a second has passed, and the sleep of the poll.
nav_obstacle(t) ==
    /\ threads[t].pc = "nav_obstacle"
    /\ \/ UNCHANGED app_state /\ Silent
       \/ \E raw \in RawDetections :
             LET obstacles == detect_obstacles(raw)
             IN  /\ app_state' = [app_state EXCEPT !.obstacles = obstacles]
                 /\ spoken' = IF TooClose(obstacles) THEN WarningText(obstacles[1])
                              ELSE NoneStr
    /\ threads' = SetPc(t, "nav_while")
    /\ response' = NoResponse
    /\ UNCHANGED <<navigator, db, fin, fout>>

navigation_loop(t) ==
    \/ nav_init(t) \/ nav_while(t) \/ nav_read(t) \/ nav_instr(t)
    \/ nav_tick(t) \/ nav_obstacle(t)

\* ------------------------------------------------------ the specification

Next ==
    \/ \E location_name \in LocationNames : start_mapping(location_name)
    \/ stop_mapping
    \/ \E destination \in LocationNames \cup {NoneStr} : start_navigation(destination)
    \/ stop_navigation
    \/ generate_frames
    \/ \E t \in DOMAIN threads : mapping_loop(t)
    \/ \E t \in DOMAIN threads : navigation_loop(t)

Spec == Init /\ [][Next]_vars

\* ------------------------------------- the planner and navigator, applied

\* The node at position p of a path graph of n nodes: ids in capture order
\* (as save_frame numbers them) or in the opposite order.
NodeAt(n, order, p) == IF order = "ascending" THEN p + 1 ELSE n - p

\* What get_navigation_graph returns for a path graph of n nodes with edge
\* weight w: positions 0..n-1, one edge pair per consecutive pair.
PathGraphNodes(n, order) ==
    [id \in 1..n |-> [position |-> IF order = "ascending" THEN id - 1 ELSE n - id,
                      frame_id |-> id]]

PathGraphEdges(n, order, w) ==
    [i \in 1..(2 * (n - 1)) |->
        LET p == (i + 1) \div 2
        IN  IF i % 2 = 1
            THEN <<NodeAt(n, order, p - 1), NodeAt(n, order, p), w>>
            ELSE <<NodeAt(n, order, p), NodeAt(n, order, p - 1), w>>]

AstarInputs ==
    {[fn |-> "astar", n |-> n, order |-> o, weight |-> w, start |-> a, goal |-> b] :
        n \in 1..MaxNodes, o \in {"ascending", "descending"},
        w \in {StepDistance, 10}, a \in 1..MaxNodes, b \in 1..MaxNodes}

InstructionInputs ==
    {[fn |-> "get_next_instruction", length |-> l, current_step |-> k] :
        l \in 0..MaxNodes, k \in 0..MaxNodes}

\* _astar on a directed graph of n nodes, from start to goal.
GraphInputs ==
    {[fn |-> "astar_graph", n |-> n, start |-> a, goal |-> b] :
        n \in 1..MaxGraphNodes, a \in 1..MaxGraphNodes, b \in 1..MaxGraphNodes}

\* Edge weights in tenths: all 0, all 0.7, or 0, 0.7 and 1.4 mixed.
GraphWeight(scheme, a, b) ==
    CASE scheme = "zero"  -> 0
      [] scheme = "unit"  -> StepDistance
      [] scheme = "mixed" -> StepDistance * ((a + 2 * b) % 3)

\* The nodes dict of the graph: positions in id order, against it, or all 0.
GraphNodes(n, scheme) ==
    [id \in 1..n |-> [position |-> CASE scheme = "ascending"  -> id - 1
                                     [] scheme = "descending" -> n - id
                                     [] scheme = "same"       -> 0,
                      frame_id |-> id]]

\* The edge rows of the pairs in E, in (from, to) order.
GraphEdges(n, E, scheme) ==
    LET all  == [k \in 1..(n * n) |-> <<((k - 1) \div n) + 1, ((k - 1) % n) + 1>>]
        rows == SelectSeq(all, LAMBDA p : p \in E)
    IN  [i \in 1..Len(rows) |-> <<rows[i][1], rows[i][2],
                                   GraphWeight(scheme, rows[i][1], rows[i][2])>>]

\* Good-match counts of one stored frame, around the threshold and above 100.
LocalizeScores == {0, 29, 30, 120}

\* localize on the store of "kitchen" holding n frames, the first of them
\* from one session and the others from a second session on the location:
\* the location asked for and the live frame's keypoint count.
LocalizeInputs ==
    {i \in [fn : {"localize"}, n : 0..MaxStored, first : 0..MaxStored,
            location_name : LocationNames, keypoints : KeypointCounts] :
        IF i.n = 0 THEN i.first = 0 ELSE i.first \in 1..i.n}

\* Confidence values in tenths: below 0, inside [0, 1], and up to and past 100.
ConfidenceInputs ==
    {[fn |-> "_cap_confidence", v |-> v] :
        v \in {-5, 0, 5, 10, 11, 300, 755, 999, 1000, 1001, 1200}}

FnInputs ==
    {i \in AstarInputs : i.start <= i.n /\ i.goal <= i.n} \cup InstructionInputs
      \cup LocalizeInputs \cup ConfidenceInputs
      \cup {i \in GraphInputs : i.start <= i.n /\ i.goal <= i.n}

InitFn ==
    /\ app_state = InitialAppState
    /\ navigator = [current_path |-> <<>>, current_step |-> 0]
    /\ db = EmptyDb
    /\ threads = <<>>
    /\ response = NoResponse
    /\ spoken = NoneStr
    /\ fin \in FnInputs
    /\ fout = [done |-> FALSE]

\* The adjacency list of plan_route and the search over it.
apply_astar ==
    /\ fin.fn = "astar"
    /\ ~fout.done
    /\ LET nodes == PathGraphNodes(fin.n, fin.order)
           edges == PathGraphEdges(fin.n, fin.order, fin.weight)
           graph == Adjacency(DOMAIN nodes, edges, Len(edges))
       IN  fout' = [done |-> TRUE, path |-> _astar(graph, nodes, fin.start, fin.goal)]
    /\ UNCHANGED <<app_state, navigator, db, threads, response, spoken, fin>>

apply_get_next_instruction ==
    /\ fin.fn = "get_next_instruction"
    /\ ~fout.done
    /\ fout' = [done |-> TRUE,
                instruction |-> get_next_instruction(
                    [current_path |-> [i \in 1..fin.length |-> i],
                     current_step |-> fin.current_step])]
    /\ UNCHANGED <<app_state, navigator, db, threads, response, spoken, fin>>

\* The matcher's good-match counts of the stored frames are drawn here, with
\* second counts that are nowhere higher; localize runs once on each.
apply_localize ==
    /\ fin.fn = "localize"
    /\ ~fout.done
    /\ \E scores \in [1..fin.n -> LocalizeScores], lowered \in [1..fin.n -> LocalizeScores] :
        /\ \A f \in 1..fin.n : lowered[f] <= scores[f]
        /\ LET d == RemappedStore("kitchen", fin.first, fin.n - fin.first)
           IN  fout' = [done |-> TRUE, scores |-> scores, lowered |-> lowered,
                        result |-> localize(d, fin.keypoints, scores, fin.location_name),
                        lowered_result |-> localize(d, fin.keypoints, lowered,
                                                    fin.location_name)]
    /\ UNCHANGED <<app_state, navigator, db, threads, response, spoken, fin>>

apply_cap_confidence ==
    /\ fin.fn = "_cap_confidence"
    /\ ~fout.done
    /\ fout' = [done |-> TRUE,
                value |-> _cap_confidence(fin.v),
                twice |-> _cap_confidence(_cap_confidence(fin.v))]
    /\ UNCHANGED <<app_state, navigator, db, threads, response, spoken, fin>>

\* The graph is drawn here: any set of directed edges between distinct nodes,
\* with or without a self-loop at every node, under each weight and position
\* scheme; _astar runs on its adjacency list.
apply_astar_graph ==
    /\ fin.fn = "astar_graph"
    /\ ~fout.done
    /\ \E D \in SUBSET {p \in (1..fin.n) \X (1..fin.n) : p[1] # p[2]},
          loops \in {{}, {<<a, a>> : a \in 1..fin.n}},
          weights \in {"zero", "unit", "mixed"},
          positions \in {"ascending", "descending", "same"} :
          LET E     == D \cup loops
              nodes == GraphNodes(fin.n, positions)
              edges == GraphEdges(fin.n, E, weights)
              graph == Adjacency(DOMAIN nodes, edges, Len(edges))
          IN  fout' = [done |-> TRUE, E |-> E, weights |-> weights,
                       positions |-> positions,
                       path |-> _astar(graph, nodes, fin.start, fin.goal)]
    /\ UNCHANGED <<app_state, navigator, db, threads, response, spoken, fin>>

NextFn ==
    \/ apply_astar \/ apply_get_next_instruction
    \/ apply_localize \/ apply_cap_confidence
    \/ apply_astar_graph

SpecFn == InitFn /\ [][NextFn]_vars

\* ------------------------------------------------ mapping sessions alone

\* Runs of start_mapping, stop_mapping and the mapping loops over a store
\* that earlier mapping of one location left.
InitMap ==
    /\ app_state = InitialAppState
    /\ navigator = [current_path |-> <<>>, current_step |-> 0]
    /\ db \in InitialStores
    /\ threads = <<>>
    /\ response = NoResponse
    /\ spoken = NoneStr
    /\ fin = [fn |-> "mapping"]
    /\ fout = [done |-> FALSE]

NextMap ==
    \/ \E location_name \in LocationNames : start_mapping(location_name)
    \/ stop_mapping
    \/ \E t \in DOMAIN threads : mapping_loop(t)

SpecMap == InitMap /\ [][NextMap]_vars

\* ------------------------------------------------------------ properties

NavigationInputs == LocationNames \cup {NoneStr}

LoopBodyPcs ==
    {"map_capture", "map_save", "map_incr",
     "nav_read", "nav_instr", "nav_tick", "nav_obstacle"}

\* Every thread other than t has returned.
Alone(t) == \A u \in DOMAIN threads : u # t => threads[u].pc = "done"

NodesOf(d, location_id) ==
    {n \in DOMAIN d.graph_nodes : d.graph_nodes[n].location_id = location_id}

\* One node per frame, and positions and sequence numbers unique in a location.
WellFormedStore(d) ==
    /\ \A f \in DOMAIN d.frames :
          Cardinality({n \in DOMAIN d.graph_nodes : d.graph_nodes[n].frame_id = f}) = 1
    /\ \A m, n \in DOMAIN d.graph_nodes :
          (/\ m # n
           /\ d.graph_nodes[m].location_id = d.graph_nodes[n].location_id)
          => d.graph_nodes[m].position_index # d.graph_nodes[n].position_index
    /\ \A f, g \in DOMAIN d.frames :
          (f # g /\ d.frames[f].location_id = d.frames[g].location_id)
          => d.frames[f].sequence_number # d.frames[g].sequence_number

\* The nodes of a location in the order of their positions.
FullPath(d, location_name) ==
    LET ids == NodesOf(d, LocationId(d, location_name))
    IN  SortBy(ids, [n \in ids |-> d.graph_nodes[n].position_index])

\* C1: every step that starts a session loop, and every step that changes
\* the mode into mapping or navigating, is taken from mode idle: no request
\* moves the mode from mapping to navigating or from navigating to mapping,
\* and none re-enters a mode that is already active.
C1_ModeEnteredOnlyFromIdle ==
    [][(\/ Len(threads') > Len(threads)
        \/ /\ app_state'.mode # app_state.mode
           /\ app_state'.mode \in {"mapping", "navigating"})
       => app_state.mode = "idle"]_vars

\* C2: under every interleaving at most one control loop (mapping_loop or
\* navigation_loop) is inside its loop body.
C2_AtMostOneLoopInBody ==
    Cardinality({t \in DOMAIN threads : threads[t].pc \in LoopBodyPcs}) <= 1

\* C3: a loop whose session was stopped leaves at its next test of the mode
\* flag, whatever requests followed the stop: from the while test it never
\* enters the loop body again.
C3_StoppedLoopExitsAtNextPoll ==
    [][\A t \in DOMAIN threads :
          (/\ threads[t].stopped
           /\ threads[t].pc \in {"map_while", "nav_while"}
           /\ threads'[t] # threads[t])
          => threads'[t].pc \in {"map_while", "nav_while", "done"}]_vars

\* C4: in the first session of a run, a stop request accepted in its mode
\* (stop_mapping while mapping, stop_navigation while navigating) leaves mode
\* idle, an empty planned path and step index 0; stop_navigation also leaves
\* the destination cleared.
C4_StopClearsSession ==
    [][(/\ Len(threads) = 1
        /\ \/ /\ app_state.mode = "mapping"
              /\ response'.status = "success"
              /\ Contains(response'.message, "Mapping complete")
           \/ /\ app_state.mode = "navigating"
              /\ response'.message = "Navigation stopped")
       => /\ app_state'.mode = "idle"
          /\ navigator'.current_path = <<>>
          /\ navigator'.current_step = 0
          /\ (response'.message = "Navigation stopped"
                => app_state'.destination = NoneStr)]_vars

\* C5: start_navigation with a destination that is not a stored location
\* name returns the error result and changes nothing: mode, destination,
\* planned path, step index and the set of started loops stay as they were.
C5_UnknownDestinationRejected ==
    [][\A destination \in NavigationInputs :
          (/\ destination \notin get_all_locations(db)
           /\ start_navigation(destination))
          => /\ response'.status = "error"
             /\ response'.message = "Location not found"
             /\ app_state' = app_state
             /\ navigator' = navigator
             /\ threads' = threads
             /\ db' = db]_vars

\* C5 witness: a start_navigation has just been rejected while a loop of an
\* earlier request is live.
C5_Witness ==
    /\ response = [status |-> "error", message |-> "Location not found"]
    /\ \E t \in DOMAIN threads : Live(t)

\* C6: in a navigation session running alone in mode navigating over a
\* well-formed store, when the session first resolves a node and that node
\* is at position 0, the planned path is the location's nodes in position
\* order with step 0; on that path at step N-1 the derived instruction is the
\* arrival instruction; and the arrival instruction sets the mode to idle.
C6_ArrivalScenario ==
    [][\A t \in DOMAIN threads :
          threads[t].target = "navigation_loop" =>
             LET name == threads[t].destination
                 full == FullPath(db, name)
             IN  /\ (/\ threads[t].pc = "nav_read"
                     /\ app_state.mode = "navigating"
                     /\ Alone(t)
                     /\ WellFormedStore(db)
                     /\ threads[t].current_node = NoneInt
                     /\ threads'[t].current_node # NoneInt
                     /\ db.graph_nodes[threads'[t].current_node].position_index = 0)
                    => navigator' = [current_path |-> full, current_step |-> 0]
                 /\ (/\ threads[t].pc = "nav_instr"
                     /\ threads'[t].pc = "nav_tick"
                     /\ navigator.current_path = full
                     /\ navigator.current_step = Len(full) - 1)
                    => IsReached(threads'[t].instruction)
                 /\ (/\ threads[t].pc = "nav_tick"
                     /\ threads'[t].pc # "nav_tick"
                     /\ IsReached(threads[t].instruction))
                    => app_state'.mode = "idle"]_vars

\* C7: a navigation session that begins in mode navigating when no other
\* loop is running begins with no planned path and step index 0, however the
\* session before it ended.
C7_SessionBeginsWithoutPath ==
    \A t \in DOMAIN threads :
        (/\ threads[t].target = "navigation_loop"
         /\ threads[t].pc = "nav_init"
         /\ app_state.mode = "navigating"
         /\ Alone(t))
        => navigator = [current_path |-> <<>>, current_step |-> 0]

\* C8: on a path graph with positions 0..n-1 and edge pairs of one weight,
\* for every start and goal the planner returns a path from start to goal of
\* |goal - start| + 1 nodes whose positions are strictly monotonic.
C8_PlannerOnPathGraph ==
    (fin.fn = "astar" /\ fout.done) =>
        LET nodes == PathGraphNodes(fin.n, fin.order)
            path  == fout.path
            a     == nodes[fin.start].position
            b     == nodes[fin.goal].position
        IN  /\ Len(path) = Abs(b - a) + 1
            /\ path[1] = fin.start
            /\ path[Len(path)] = fin.goal
            /\ b >= a => \A i \in 1..(Len(path) - 1) :
                            nodes[path[i]].position < nodes[path[i + 1]].position
            /\ b <= a => \A i \in 1..(Len(path) - 1) :
                            nodes[path[i]].position > nodes[path[i + 1]].position

\* C8 witness: the planner has returned a path of three or more nodes that
\* runs from a higher position down to a lower one.
C8_Witness ==
    /\ fin.fn = "astar" /\ fout.done
    /\ Len(fout.path) >= 3
    /\ PathGraphNodes(fin.n, fin.order)[fin.start].position
         > PathGraphNodes(fin.n, fin.order)[fin.goal].position

\* C9: for a non-empty path of length L, get_next_instruction returns the
\* arrival instruction at step L-1 and the fixed "Continue forward 0.7
\* meters" instruction at every smaller step.
C9_InstructionDerivation ==
    (fin.fn = "get_next_instruction" /\ fout.done /\ fin.length >= 1) =>
        /\ fin.current_step = fin.length - 1
             => fout.instruction = "Destination reached"
        /\ fin.current_step < fin.length - 1
             => fout.instruction = "Continue forward 0.7 meters"

\* C9 witness: the arrival instruction was derived at the last step of a
\* path of two or more nodes.
C9_Witness ==
    /\ fin.fn = "get_next_instruction" /\ fout.done
    /\ fin.length >= 2 /\ fin.current_step = fin.length - 1
    /\ fout.instruction = ReachedText

\* C10: after any sequence of mapping sessions every location has one graph
\* node per landmark frame, and no two nodes and no two frames of a location
\* share a position or sequence index.
C10_UniquePositions == WellFormedStore(db)

\* The nodes an edge row joins n to.
Neighbours(d, n) ==
    {e[2] : e \in {x \in Range(d.graph_edges) : x[1] = n}}
      \cup {e[1] : e \in {x \in Range(d.graph_edges) : x[2] = n}}

\* C11: after any sequence of mapping sessions every edge joins two nodes of
\* one location whose positions differ by exactly 1, has weight 0.7 and has
\* its reverse edge with the same weight, and no node has more than two
\* distinct neighbours.
C11_SimplePathGraph ==
    /\ \A e \in Range(db.graph_edges) :
          /\ db.graph_nodes[e[1]].location_id = db.graph_nodes[e[2]].location_id
          /\ Abs(db.graph_nodes[e[1]].position_index
                   - db.graph_nodes[e[2]].position_index) = 1
          /\ e[3] = StepDistance
          /\ <<e[2], e[1], e[3]>> \in Range(db.graph_edges)
    /\ \A n \in DOMAIN db.graph_nodes : Cardinality(Neighbours(db, n)) <= 2

\* The node of a location at position p (NoneInt when there is none).
NodeAtPosition(d, location_id, p) ==
    LET found == {n \in NodesOf(d, location_id) : d.graph_nodes[n].position_index = p}
    IN  IF found = {} THEN NoneInt ELSE CHOOSE n \in found : TRUE

\* C12: in the one mapping session of a run, on the new location "hall",
\* after N accepted captures the location has N frames with sequence indices
\* 0..N-1, N nodes (one per frame, at positions 0..N-1), 2*(N-1) edges of
\* weight 0.7, one pair between each two consecutive positions, and the frame
\* counter is N (N-1 between a save and its increment).
C12_MappingScenario ==
    (Len(threads) = 1 /\ "hall" \in get_all_locations(db)) =>
        LET loc    == LocationId(db, "hall")
            frames == {f \in DOMAIN db.frames : db.frames[f].location_id = loc}
            nodes  == NodesOf(db, loc)
            N      == Cardinality(frames)
            edges  == SelectSeq(db.graph_edges, LAMBDA e : e[1] \in nodes)
        IN  /\ {db.frames[f].sequence_number : f \in frames} = 0..(N - 1)
            /\ Cardinality(nodes) = N
            /\ \A f \in frames :
                  \E n \in nodes :
                     /\ db.graph_nodes[n].frame_id = f
                     /\ db.graph_nodes[n].position_index = db.frames[f].sequence_number
            /\ Len(edges) = IF N = 0 THEN 0 ELSE 2 * (N - 1)
            /\ \A p \in 0..(N - 2) :
                  LET a == NodeAtPosition(db, loc, p)
                      b == NodeAtPosition(db, loc, p + 1)
                  IN  /\ <<a, b, StepDistance>> \in Range(edges)
                      /\ <<b, a, StepDistance>> \in Range(edges)
            /\ app_state.mapping_frames
                 = IF threads[1].pc = "map_incr" THEN N - 1 ELSE N

\* C12 witness: the session on "hall" is over, its loop has returned, and
\* three captures were accepted.
C12_Witness ==
    /\ Len(threads) = 1 /\ threads[1].pc = "done"
    /\ app_state.mode = "idle"
    /\ "hall" \in get_all_locations(db)
    /\ Cardinality({f \in DOMAIN db.frames :
                      db.frames[f].location_id = LocationId(db, "hall")}) = 3
    /\ app_state.mapping_frames = 3

\* The highest score of the stored frames in the localize run.
HighestScore == Max(0, CHOOSE m \in Range(fout.scores) \cup {0} :
                          \A x \in Range(fout.scores) : x <= m)

\* C13: for a live frame without descriptors or with fewer than 10
\* keypoints localize returns no frame id, confidence 0 and no sequence,
\* whatever the store holds; for a location without stored frames it returns
\* the same.
C13_NoMatchSentinel ==
    (fin.fn = "localize" /\ fout.done) =>
        /\ (fin.keypoints = 0 \/ fin.keypoints < 10) => fout.result = NoMatch
        /\ (fin.n = 0 \/ fin.location_name # "kitchen") => fout.result = NoMatch

\* C13 witness: a live frame of nine keypoints against stored frames that
\* all match with the highest score.
C13_Witness ==
    /\ fin.fn = "localize" /\ fout.done
    /\ fin.keypoints = 9 /\ fin.n >= 2 /\ fin.location_name = "kitchen"
    /\ \A f \in 1..fin.n : fout.scores[f] = 120
    /\ fout.result = NoMatch

\* C14: for a usable live frame, when the highest score of the stored frames
\* is at least 30, localize returns a frame that holds the highest score,
\* with that score as confidence; and with the scores of other frames
\* lowered and the returned frame's score unchanged it returns the same frame.
C14_HighestScoreWins ==
    (/\ fin.fn = "localize" /\ fout.done
     /\ fin.keypoints >= 10 /\ fin.n >= 1 /\ fin.location_name = "kitchen"
     /\ HighestScore >= 30)
    => /\ fout.result.frame_id \in 1..fin.n
       /\ fout.scores[fout.result.frame_id] = HighestScore
       /\ fout.result.confidence = HighestScore
       /\ fout.lowered[fout.result.frame_id] = fout.scores[fout.result.frame_id]
            => fout.lowered_result.frame_id = fout.result.frame_id

\* C14 witness: two stored frames tie at the highest score, another frame's
\* score is lowered, and the returned frame is the same.
C14_Witness ==
    /\ fin.fn = "localize" /\ fout.done
    /\ fin.keypoints >= 10 /\ fin.n = 3 /\ fin.location_name = "kitchen"
    /\ fout.scores = <<30, 120, 120>> /\ fout.lowered = <<0, 120, 29>>
    /\ fout.result.frame_id = 2 /\ fout.lowered_result.frame_id = 2

\* C15: a normalized confidence, 0 or a value above 1 and up to 100 with one
\* decimal, is returned unchanged by the normalization, also when it is
\* normalized a second time.
C15_NormalizationIdempotent ==
    (/\ fin.fn = "_cap_confidence" /\ fout.done
     /\ (fin.v = 0 \/ (fin.v > 10 /\ fin.v <= 1000)))
    => fout.value = fin.v /\ fout.twice = fin.v

\* C15 witness: 75.5 has been normalized and is still 75.5.
C15_Witness ==
    /\ fin.fn = "_cap_confidence" /\ fout.done
    /\ fin.v = 755 /\ fout.value = 755

\* C16: in every reachable state the stored localization confidence is a
\* normalized value between 0 and 100 (in tenths, 0..1000).
C16_ConfidenceNormalized ==
    app_state.localization_confidence \in 0..1000

\* Thread t is a navigation loop that takes this step from its frame read.
NavReadStep(t) ==
    /\ threads[t].target = "navigation_loop"
    /\ threads[t].pc = "nav_read"
    /\ threads'[t].pc # "nav_read"

\* C17: a failed frame read and a localization tick without a match leave
\* the mode, the planned path and the step index as they were; and the mode
\* leaves navigating only in the step of an accepted request or in the
\* arrival step of a navigation loop.
C17_NeverAbortedAutomatically ==
    [][/\ \A t \in DOMAIN threads :
             (/\ NavReadStep(t)
              /\ \/ threads'[t].pc = "nav_while"
                 \/ spoken' = "Unable to determine location. Please look around")
             => /\ app_state'.mode = app_state.mode
                /\ navigator' = navigator
       /\ (app_state.mode = "navigating" /\ app_state'.mode # "navigating")
          => \/ response'.status = "success"
             \/ \E t \in DOMAIN threads :
                   /\ threads[t].pc = "nav_tick"
                   /\ IsReached(threads[t].instruction)
                   /\ threads'[t].pc # "nav_tick"]_vars

\* C17 witness: a localization tick has just failed in mode navigating while
\* a planned path is held at a step after the first.
C17_Witness ==
    /\ spoken = "Unable to determine location. Please look around"
    /\ app_state.mode = "navigating"
    /\ Len(navigator.current_path) >= 2
    /\ navigator.current_step >= 1

\* C18: in a localization tick that begins without a planned path, a path
\* that is still empty afterwards leaves the step index and the mode as they
\* were; and every such tick that matches a frame with a resolved node runs
\* the search from that node to a terminal node: without a route the
\* navigator is unchanged and no instruction is derived, with a route the
\* path is the route at step 0.
C18_NoRouteRetried ==
    [][\A t \in DOMAIN threads :
          (NavReadStep(t) /\ navigator.current_path = <<>>) =>
             /\ navigator'.current_path = <<>>
                  => /\ navigator' = navigator
                     /\ app_state'.mode = app_state.mode
             /\ (/\ spoken' = NoneStr
                 /\ app_state' # app_state
                 /\ threads'[t].current_node # NoneInt)
                => LET g     == get_navigation_graph(db, threads[t].destination)
                       graph == Adjacency(DOMAIN g.nodes, g.edges, Len(g.edges))
                   IN  \E goal \in TerminalNodes(g.nodes) :
                          LET p == _astar(graph, g.nodes, threads'[t].current_node, goal)
                          IN  IF p = <<>>
                              THEN /\ navigator' = navigator
                                   /\ threads'[t].pc = "nav_obstacle"
                              ELSE /\ navigator' = [current_path |-> p, current_step |-> 0]
                                   /\ threads'[t].pc = "nav_instr"]_vars

\* C18 witness: a navigation loop that was never stopped has resolved a node,
\* holds no path, and is at its next frame read in mode navigating.
C18_Witness ==
    /\ app_state.mode = "navigating"
    /\ navigator.current_path = <<>>
    /\ \E t \in DOMAIN threads :
          /\ threads[t].target = "navigation_loop"
          /\ threads[t].pc = "nav_read"
          /\ ~threads[t].stopped
          /\ threads[t].current_node # NoneInt

\* C19: a planned path that is not empty is changed by no step except an
\* accepted stop_navigation, which empties it; while it is held the step
\* index stays or advances by one.
C19_NoReplanning ==
    [][navigator.current_path # <<>> =>
          \/ /\ navigator'.current_path = navigator.current_path
             /\ navigator'.current_step \in
                  {navigator.current_step, navigator.current_step + 1}
          \/ /\ response'.message = "Navigation stopped"
             /\ navigator'.current_path = <<>>]_vars

\* C19 witness: with the path <<1, 2>> at step 1, a localization tick has
\* resolved node 1, which is behind the step.
C19_Witness ==
    /\ navigator = [current_path |-> <<1, 2>>, current_step |-> 1]
    /\ \E t \in DOMAIN threads :
          threads[t].pc = "nav_instr" /\ threads[t].current_node = 1

\* C20: at every poll of the first navigation loop of a run that holds a
\* planned path and reads a frame, the loop comes to the instruction timer
\* (the instruction is derived and the five-second test is made), whether or
\* not localization was due at that poll or matched a frame.
C20_InstructionTimerIndependent ==
    [][\A t \in DOMAIN threads :
          (/\ NavReadStep(t)
           /\ Len(threads) = 1
           /\ navigator.current_path # <<>>
           /\ threads'[t].pc # "nav_while")
          => threads'[t].pc = "nav_instr"]_vars

\* The first detection of a list is nearer than 1.5.
FirstIsNear(obstacles) == Len(obstacles) > 0 /\ obstacles[1].distance < 15

\* C21: in every pass of a navigation loop through its obstacle check, a
\* warning is spoken only if the list stored by the check is non-empty and its
\* first detection is nearer than 1.5, and it names that detection's class and
\* distance; and whenever the check replaces the list by one whose first
\* detection is nearer than 1.5 the warning is spoken. The check runs whether
\* or not a position or a path exists.
C21_ObstacleWarning ==
    [][\A t \in DOMAIN threads :
        (threads[t].pc = "nav_obstacle" /\ threads'[t].pc # "nav_obstacle") =>
            LET obstacles == app_state'.obstacles
            IN  /\ spoken' # NoneStr =>
                    /\ FirstIsNear(obstacles)
                    /\ spoken' = WarningText(obstacles[1])
                /\ (obstacles # app_state.obstacles /\ FirstIsNear(obstacles)) =>
                    spoken' = WarningText(obstacles[1])]_vars

\* C21 witness: the warning of a person at 1.0 has been spoken, ahead of the
\* farther bottle, in a session with no position and no path.
C21_Witness ==
    /\ app_state.mode = "navigating"
    /\ app_state.current_position = NoneInt
    /\ navigator.current_path = <<>>
    /\ Len(app_state.obstacles) = 2
    /\ spoken = "Warning! person ahead at 1.0 meters"

\* C22: a step that is neither the answer to a command nor a step of a
\* control loop, that is a pass of the frame stream, writes no field of the
\* session state.
C22_PresentationReadsOnly ==
    [][(threads' = threads /\ response' = NoResponse) => app_state' = app_state]_vars

\* C23: a step of a mapping loop changes the store or the frame counter only
\* while the loop holds a captured frame of more than 50 keypoints. The
\* capture itself changes neither and goes on to the save only with such a
\* frame; the save appends one frame of the loop's location whose sequence
\* number is the counter; the step after it adds one to the counter.
C23_OnlyRichFramesSaved ==
    [][\A t \in DOMAIN threads :
        (threads[t].target = "mapping_loop" /\ threads'[t].pc # threads[t].pc) =>
            /\ (db' # db \/ app_state'.mapping_frames # app_state.mapping_frames)
                  => threads[t].kp > MinMappingKeypoints
            /\ threads[t].pc = "map_capture" =>
                  /\ db' = db /\ app_state' = app_state
                  /\ threads'[t].pc \in {"map_save", "map_while"}
                  /\ threads'[t].pc = "map_save" => threads'[t].kp > MinMappingKeypoints
            /\ threads[t].pc = "map_save" =>
                  /\ db'.frames = Append(db.frames,
                                         [location_id |-> threads[t].location_id,
                                          sequence_number |-> app_state.mapping_frames])
                  /\ app_state' = app_state
                  /\ threads'[t].pc = "map_incr"
            /\ threads[t].pc = "map_incr" =>
                  /\ db' = db
                  /\ app_state'.mapping_frames = app_state.mapping_frames + 1]_vars

\* C23 witness: a loop has saved its second frame of 51 keypoints and is
\* about to count it.
C23_Witness ==
    \E t \in DOMAIN threads :
        /\ threads[t].pc = "map_incr" /\ threads[t].kp = 51
        /\ app_state.mapping_frames = 1
        /\ Len(db.frames) = 2
        /\ db.frames[2].sequence_number = 1

\* C24: whenever the planned path is non-empty the step index lies between 0
\* and the last index of the path; and a step of the one running loop of a
\* navigation session never lowers the step index.
C24_StepIndexBound ==
    [][/\ navigator'.current_path # <<>> =>
            /\ 0 <= navigator'.current_step
            /\ navigator'.current_step <= Len(navigator'.current_path) - 1
       /\ \A t \in DOMAIN threads :
            (/\ threads[t].target = "navigation_loop"
             /\ threads'[t].pc # threads[t].pc
             /\ Alone(t)
             /\ app_state.mode = "navigating")
            => navigator'.current_step >= navigator.current_step]_vars

\* The nodes reachable from the nodes of S along the edges of E.
RECURSIVE ReachableFrom(_, _)
ReachableFrom(S, E) ==
    LET more == S \cup {e[2] : e \in {x \in E : x[1] \in S}}
    IN  IF more = S THEN S ELSE ReachableFrom(more, E)

\* C25: on every directed graph with non-negative weights the search ends;
\* it returns no path exactly when the goal cannot be reached from the start,
\* and otherwise a sequence of nodes from the start to the goal in which each
\* node is joined to the next by an edge of the graph.
C25_SearchSoundAndComplete ==
    (fin.fn = "astar_graph" /\ fout.done) =>
        LET path == fout.path
        IN  /\ path = <<>> <=> fin.goal \notin ReachableFrom({fin.start}, fout.E)
            /\ path # <<>> =>
                  /\ path[1] = fin.start
                  /\ path[Len(path)] = fin.goal
                  /\ \A i \in 1..(Len(path) - 1) : <<path[i], path[i + 1]>> \in fout.E

\* C25 witness: on a graph with a cycle through the start and an edge of
\* weight 0, the search has returned a path of three nodes.
C25_Witness ==
    /\ fin.fn = "astar_graph" /\ fout.done
    /\ fout.weights = "mixed"
    /\ <<fin.start, fin.start>> \in fout.E
    /\ \E a \in 1..fin.n : a # fin.start /\ <<fin.start, a>> \in fout.E
                                           /\ <<a, fin.start>> \in fout.E
    /\ Len(fout.path) = 3

\* C26: the one running navigation loop announces arrival only in a state
\* where the planned path is non-empty and the step index is its last index.
C26_ArrivalIsGenuine ==
    [][\A t \in DOMAIN threads :
        (/\ threads[t].pc = "nav_tick"
         /\ threads'[t].pc # "nav_tick"
         /\ Alone(t)
         /\ spoken' = "You have arrived at your destination")
        => /\ navigator.current_path # <<>>
           /\ navigator.current_step = Len(navigator.current_path) - 1]_vars

\* C27: a stop command answers with its failure message exactly when the
\* mode is not the one it stops, and then the session state, the planned path
\* and step index, the store and the threads are as before; its success
\* answer is given only in its own mode.
C27_WrongModeStopRejected ==
    [][/\ response'.message = "Not in mapping mode" =>
            /\ app_state.mode # "mapping"
            /\ response'.status = "error"
            /\ UNCHANGED <<app_state, navigator, db, threads>>
       /\ response'.message = "Not in navigation mode" =>
            /\ app_state.mode # "navigating"
            /\ response'.status = "error"
            /\ UNCHANGED <<app_state, navigator, db, threads>>
       /\ Contains(response'.message, "Mapping complete") => app_state.mode = "mapping"
       /\ response'.message = "Navigation stopped" => app_state.mode = "navigating"]_vars

\* C27 witness: stop_navigation has been rejected during a mapping session
\* while the navigator still holds a path.
C27_Witness ==
    /\ response = [status |-> "error", message |-> "Not in navigation mode"]
    /\ app_state.mode = "mapping"
    /\ app_state.current_location # NoneStr
    /\ navigator.current_path # <<>>

\* The store the localize run was applied to.
LocalizeStore == RemappedStore("kitchen", fin.first, fin.n - fin.first)

\* C28: for a usable live frame, localize returns a frame id, and with it the
\* frame's sequence number, exactly when the highest score of the stored
\* frames is at least 30; with or without a frame the confidence it returns
\* is that highest score.
C28_ThresholdAndRawConfidence ==
    (/\ fin.fn = "localize" /\ fout.done
     /\ fin.keypoints >= 10 /\ fin.location_name = "kitchen")
    => LET r == fout.result
       IN  /\ r.frame_id # NoneInt <=> HighestScore >= 30
           /\ r.sequence # NoneInt <=> r.frame_id # NoneInt
           /\ r.frame_id # NoneInt =>
                 r.sequence = LocalizeStore.frames[r.frame_id].sequence_number
           /\ r.confidence = HighestScore

\* C28 witness: the highest score of three stored frames is 29 and localize
\* has returned no frame with confidence 29.
C28_Witness ==
    /\ fin.fn = "localize" /\ fout.done
    /\ fin.keypoints >= 10 /\ fin.n = 3 /\ fin.location_name = "kitchen"
    /\ fout.scores = <<0, 29, 29>>
    /\ fout.result = [frame_id |-> NoneInt, confidence |-> 29, sequence |-> NoneInt]

\* C29: when localize returns a frame, it is the first frame in the order of
\* get_location_frames among those with the highest score, and no frame
\* with the highest score has a lower sequence number.
C29_TieKeepsFirst ==
    (/\ fin.fn = "localize" /\ fout.done
     /\ fin.keypoints >= 10 /\ fin.location_name = "kitchen"
     /\ HighestScore >= 30)
    => LET saved == get_location_frames(LocalizeStore, "kitchen")
           tied  == {f \in 1..fin.n : fout.scores[f] = HighestScore}
           first == CHOOSE i \in 1..Len(saved) :
                        /\ saved[i] \in tied
                        /\ \A j \in 1..(i - 1) : saved[j] \notin tied
           r     == fout.result
       IN  /\ r.frame_id = saved[first]
           /\ \A f \in tied : r.sequence <= LocalizeStore.frames[f].sequence_number

\* C29 witness: frames 2 and 3 tie at the highest score; frame 3, of the
\* second session, has the lower sequence number and is the one returned.
C29_Witness ==
    /\ fin.fn = "localize" /\ fout.done
    /\ fin.keypoints >= 10 /\ fin.location_name = "kitchen"
    /\ fin.n = 3 /\ fin.first = 2
    /\ fout.scores = <<0, 120, 120>>
    /\ fout.result = [frame_id |-> 3, confidence |-> 120, sequence |-> 0]

====
